---------------------------- MODULE Spec2Model ----------------------------
(***************************************************************************)
(* Model of package cbase (common.go): script identifiers (KeyID), the     *)
(* signature checks (CheckSig, CheckSigs), the built-in authorization      *)
(* predicates (SingleCheck, MultiCheck), the multi-signature key           *)
(* extraction (MulPubKeys) and the emission total (AwardTotal).            *)
(*                                                                         *)
(* One call is in progress at a time.  The functions without a loop that   *)
(* matters are operators applied by one action; AwardTotal is a loop with  *)
(* one action per iteration.  Go's int64 is modelled as eight base-256     *)
(* limbs, least significant first, in two's complement, so that every      *)
(* product and sum wraps as the machine's does.                            *)
(***************************************************************************)
EXTENDS Integers, Sequences, FiniteSets, TLC

VARIABLES
    pc,      \* "idle", "returned", "loop" (inside AwardTotal's for), "done", "panic"
    op,      \* the function called last
    args,    \* its arguments
    ret,     \* its outcome
    prev,    \* the call before it: [args, ret]
    mem,     \* caller-owned byte buffers (the prefixed entries), by buffer id
    base,    \* AwardTotal: local base (int64)
    rate,    \* AwardTotal: parameter rate (int64)
    sum,     \* AwardTotal: local sum (int64)
    y,       \* AwardTotal: local y
    out      \* AwardTotal: the rows printed by fmt.Printf, in order

vars == <<pc, op, args, ret, prev, mem, base, rate, sum, y, out>>

-----------------------------------------------------------------------------
(* Bounds of the model. *)

\* longest list of public keys handed to CheckSigs / MultiCheck / MulPubKeys
MaxPks == 2
\* longest list of signatures
MaxSigs == 2
\* longest list of unsigned address-hash entries
MaxPkhs == 1
\* most passes of AwardTotal's loop that are followed
MaxYears == 300

-----------------------------------------------------------------------------
(* Program constants. *)

SY6BLOCKS == 87661
MINTENDLINE == 300000000
PubKeySize == 32

-----------------------------------------------------------------------------
(* Sequences. *)

SeqsUpTo(S, n) == UNION {[1..k -> S] : k \in 0..n}

-----------------------------------------------------------------------------
(* Fixed-width integers: a sequence of base-256 limbs, least significant   *)
(* first.  Eight limbs are Go's int64 (two's complement); every operation  *)
(* keeps the width of its first operand, dropping the carry out of the top *)
(* limb, as the machine does.                                              *)

Int64Width == 8

\* the non-negative integer n < 2^31 in w limbs
ToLimbs(n, w) ==
    [k \in 1..w |-> IF k <= 4 THEN (n \div (256 ^ (k - 1))) % 256 ELSE 0]

\* Each operation first binds its operands to their values (x \in {a}), so
\* that an operand that is itself an expression is evaluated once.

LimbAdd(a, b) ==
    CHOOSE s \in
        { LET w == Len(x)
              c[k \in 0..w] == IF k = 0 THEN 0 ELSE (x[k] + z[k] + c[k - 1]) \div 256
          IN  [k \in 1..w |-> (x[k] + z[k] + c[k - 1]) % 256] : x \in {a}, z \in {b} } : TRUE

LimbNeg(a) ==
    LimbAdd([k \in 1..Len(a) |-> 255 - a[k]], ToLimbs(1, Len(a)))

RECURSIVE ColSum(_, _, _, _)
\* a[1]*b[k] + a[2]*b[k-1] + ... + a[k]*b[1], from term j on
ColSum(a, b, k, j) ==
    IF j > k THEN 0 ELSE a[j] * b[k + 1 - j] + ColSum(a, b, k, j + 1)

LimbMul(a, b) ==
    CHOOSE p \in
        { LET w == Len(x)
              t[k \in 0..w] ==
                  IF k = 0 THEN 0 ELSE ColSum(x, z, k, 1) + (t[k - 1] \div 256)
          IN  [k \in 1..w |-> t[k] % 256] : x \in {a}, z \in {b} } : TRUE

IsNeg(a) == a[Len(a)] >= 128

\* unsigned quotient by the small positive d
LimbQuoU(a, d) ==
    CHOOSE q \in
        { LET w == Len(x)
              r[k \in 1..(w + 1)] ==
                  IF k = w + 1 THEN 0 ELSE (r[k + 1] * 256 + x[k]) % d
          IN  [k \in 1..w |-> (r[k + 1] * 256 + x[k]) \div d] : x \in {a} } : TRUE

\* Go's / on a signed integer: the quotient truncated toward zero
LimbQuo(a, d) ==
    CHOOSE q \in
        { IF IsNeg(x) THEN LimbNeg(LimbQuoU(LimbNeg(x), d)) ELSE LimbQuoU(x, d) :
            x \in {a} } : TRUE

RECURSIVE LimbLessU(_, _, _)
\* unsigned a < b, deciding from limb k downwards
LimbLessU(a, b, k) ==
    IF k = 0 THEN FALSE
    ELSE IF a[k] # b[k] THEN a[k] < b[k]
    ELSE LimbLessU(a, b, k - 1)

\* Go's < on signed integers of one width
LimbLess(a, b) ==
    \E x \in {a}, z \in {b} :
        IF IsNeg(x) # IsNeg(z) THEN IsNeg(x) ELSE LimbLessU(x, z, Len(x))

I64(n) == IF n < 0 THEN LimbNeg(ToLimbs(-n, Int64Width)) ELSE ToLimbs(n, Int64Width)

-----------------------------------------------------------------------------
(* KeyID (common.go 35-43). *)

\* binary.Write(&buf, binary.BigEndian, uint32(v)): the low four bytes of v,
\* most significant first
PutUint32(v) ==
    <<(v \div 16777216) % 256, (v \div 65536) % 256, (v \div 256) % 256, v % 256>>

\* binary.Write(&buf, binary.BigEndian, uint16(v))
PutUint16(v) == <<(v \div 256) % 256, v % 256>>

KeyID_LittleEndian(h, n, i) ==
    <<h % 256, (h \div 256) % 256, (h \div 65536) % 256, (h \div 16777216) % 256,
      n % 256, (n \div 256) % 256, (n \div 65536) % 256, (n \div 16777216) % 256,
      i % 256, (i \div 256) % 256>>

KeyID_ByteIndex(h, n, i) == PutUint32(h) \o PutUint32(n) \o <<i % 256>>

KeyID(h, n, i) == PutUint32(h) \o PutUint32(n) \o PutUint16(i)

\* bytes.Compare(a, b) < 0
RECURSIVE BytesLess(_, _)
BytesLess(a, b) ==
    IF b = <<>> THEN FALSE
    ELSE IF a = <<>> THEN TRUE
    ELSE IF Head(a) # Head(b) THEN Head(a) < Head(b)
    ELSE BytesLess(Tail(a), Tail(b))

\* heights and transaction indexes (below 2^32) and script indexes (below
\* 2^16) on both sides of every byte boundary the model's integers reach
Heights == {0, 1, 256, 16777216, 2147483647}
TxIndexes == {0, 255, 65536, 2147483647}
ScriptIndexes == {0, 1, 256, 65535}

-----------------------------------------------------------------------------
(* Outcomes of a call: a value, or a run-time fault (a Go panic). *)

Ret(v) == [fault |-> "none", val |-> v, err |-> "nil"]
Fault(what) == [fault |-> what, val |-> FALSE, err |-> "nil"]
NoRet == Ret(FALSE)

-----------------------------------------------------------------------------
(* crypto/ed25519, as the package documents it: key pairs, Sign and Verify.*)
(* A key pair is named by its seed k; a signature is abstract.             *)

Seeds == {1, 2, 3}

\* the 32-byte public key of seed k
Pub(k) == [j \in 1..PubKeySize |-> (16 * k + j) % 256]

\* ed25519.Sign(priv_k, msg)
Sign(k, msg) == [signer |-> k, msg |-> msg, intact |-> TRUE]

\* a signature with one bit flipped
Flip(sig) == [sig EXCEPT !.intact = FALSE]

\* ed25519.Verify(pk, msg, sig), for a key of PubKeySize bytes
Verify(pk, msg, sig) ==
    /\ sig.intact
    /\ sig.msg = msg
    /\ pk = Pub(sig.signer)

-----------------------------------------------------------------------------
(* Package paddr: the address of one key, and of a multi-signature roster. *)

\* paddr.Hash(data, nil): a fixed-length digest of all the bytes of data
Hash(data) ==
    LET f[i \in 0..Len(data)] ==
            IF i = 0 THEN 17 ELSE (f[i - 1] * 31 + data[i] + 1) % 65521
        g[i \in 0..Len(data)] ==
            IF i = 0 THEN 29 ELSE (g[i - 1] * 37 + data[i] + i) % 65519
    IN  <<f[Len(data)] \div 256, f[Len(data)] % 256,
          g[Len(data)] \div 256, g[Len(data)] % 256>>

RECURSIVE ByPosition(_)
\* the entries of the set E of <<position, bytes>> pairs, concatenated in
\* the order of their positions
ByPosition(E) ==
    IF E = {} THEN <<>>
    ELSE LET e == CHOOSE x \in E : \A z \in E : x[1] <= z[1]
         IN  e[2] \o ByPosition(E \ {e})

\* paddr.MulHash(pks, pkhs): pks are prefixed public keys, pkhs prefixed
\* address hashes; the address commits to n = len(pks), T = len(pks) +
\* len(pkhs) and the roster's hashes in the order of their positions.
MulHash(pks, pkhs) ==
    LET all == pks \o pkhs
        positions == {all[k][1] : k \in DOMAIN all}
        E == {<<pks[k][1], Hash(Tail(pks[k]))>> : k \in DOMAIN pks}
             \cup {<<pkhs[k][1], Tail(pkhs[k])>> : k \in DOMAIN pkhs}
    IN  IF \E k \in DOMAIN all : Len(all[k]) < 2
        THEN [addr |-> <<>>, err |-> "malformed entry"]
        ELSE IF Len(pks) = 0
        THEN [addr |-> <<>>, err |-> "no signer"]
        ELSE IF Cardinality(positions) # Len(all)
        THEN [addr |-> <<>>, err |-> "repeated position"]
        ELSE [addr |-> Hash(<<Len(pks), Len(all)>> \o ByPosition(E)), err |-> "nil"]

-----------------------------------------------------------------------------
(* Byte slices over caller-owned buffers. *)

\* the slice covering the whole buffer b of memory m
Whole(m, b) == [buf |-> b, off |-> 0, len |-> Len(m[b])]

\* the bytes a slice denotes
Bytes(m, s) == SubSeq(m[s.buf], s.off + 1, s.off + s.len)

-----------------------------------------------------------------------------
(* MulPubKeys (common.go 60-69). *)

\* buf[i] = PubKey(pk[1:]) for each entry in turn, on the entries' own
\* buffers; pk[1:] of an empty entry is a slice-bounds fault.  Returns the
\* outcome with the memory it leaves behind.
MulPubKeys_Shift(m, pbks) ==
    IF \E k \in DOMAIN pbks : pbks[k].len < 1
    THEN Fault("slice bounds out of range") @@ [mem |-> m]
    ELSE [fault |-> "none",
          val |-> [k \in DOMAIN pbks |-> [pbks[k] EXCEPT !.len = @ - 1]],
          err |-> "nil",
          mem |-> [b \in DOMAIN m |->
                    IF \E k \in DOMAIN pbks : pbks[k].buf = b /\ Len(m[b]) > 0
                    THEN Tail(m[b]) \o <<m[b][Len(m[b])]>>
                    ELSE m[b]]]

MulPubKeys(m, pbks) ==
    IF \E k \in DOMAIN pbks : pbks[k].len < 1
    THEN Fault("slice bounds out of range") @@ [mem |-> m]
    ELSE [fault |-> "none",
          val |-> [k \in DOMAIN pbks |->
                    [pbks[k] EXCEPT !.off = @ + 1, !.len = @ - 1]],
          err |-> "nil",
          mem |-> m]

-----------------------------------------------------------------------------
(* CheckSig, CheckSigs (common.go 81-97). *)

\* ed25519.Verify panics on a public key that is not PubKeySize bytes long
CheckSig(ver, pubkey, msg, sig) ==
    IF Len(pubkey) # PubKeySize THEN Fault("bad public key length")
    ELSE Ret(Verify(pubkey, msg, sig))

RECURSIVE CheckSigsFrom(_, _, _, _)
\* the for loop from index i (1-based) on
CheckSigsFrom(pubkeys, msg, sigs, i) ==
    IF i > Len(pubkeys) THEN Ret(TRUE)
    ELSE IF i > Len(sigs) THEN Fault("index out of range")
    ELSE IF Len(pubkeys[i]) # PubKeySize THEN Fault("bad public key length")
    ELSE IF ~Verify(pubkeys[i], msg, sigs[i]) THEN Ret(FALSE)
    ELSE CheckSigsFrom(pubkeys, msg, sigs, i + 1)

CheckSigs_SkipLast(ver, pubkeys, msg, sigs) ==
    IF Len(pubkeys) = 0 THEN Ret(TRUE)
    ELSE CheckSigsFrom(SubSeq(pubkeys, 1, Len(pubkeys) - 1), msg, sigs, 1)

CheckSigs_LenFirst(ver, pubkeys, msg, sigs) ==
    IF Len(pubkeys) # Len(sigs) THEN Fault("index out of range")
    ELSE CheckSigsFrom(pubkeys, msg, sigs, 1)

CheckSigs(ver, pubkeys, msg, sigs) == CheckSigsFrom(pubkeys, msg, sigs, 1)

-----------------------------------------------------------------------------
(* SingleCheck, MultiCheck (common.go 108-139). *)

SingleCheck_NoAddress(ver, pubkey, msg, sig, pkaddr) ==
    CheckSig(ver, pubkey, msg, sig)

SingleCheck(ver, pubkey, msg, sig, pkaddr) ==
    LET pka == Hash(pubkey)
    IN  IF pka # pkaddr THEN Ret(FALSE)
        ELSE CheckSig(ver, pubkey, msg, sig)

\* pks and pkhs are slices over the memory m; the outcome carries the
\* memory the call leaves behind
MultiCheck_SwallowError(m, ver, msg, sigs, pks, pkhs, pkaddr) ==
    LET h == MulHash([k \in DOMAIN pks |-> Bytes(m, pks[k])],
                     [k \in DOMAIN pkhs |-> Bytes(m, pkhs[k])])
    IN  IF h.err # "nil" \/ h.addr # pkaddr
        THEN Ret(FALSE) @@ [mem |-> m]
        ELSE LET keys == MulPubKeys(m, pks)
             IN  IF keys.fault # "none" THEN keys
                 ELSE CheckSigs(ver,
                                [k \in DOMAIN keys.val |-> Bytes(keys.mem, keys.val[k])],
                                msg, sigs) @@ [mem |-> keys.mem]

MultiCheck_AllEntries(m, ver, msg, sigs, pks, pkhs, pkaddr) ==
    LET h == MulHash([k \in DOMAIN pks |-> Bytes(m, pks[k])],
                     [k \in DOMAIN pkhs |-> Bytes(m, pkhs[k])])
    IN  IF h.err # "nil"
        THEN [fault |-> "none", val |-> FALSE, err |-> h.err, mem |-> m]
        ELSE IF h.addr # pkaddr
        THEN Ret(FALSE) @@ [mem |-> m]
        ELSE LET keys == MulPubKeys(m, pks \o pkhs)
             IN  IF keys.fault # "none" THEN keys
                 ELSE CheckSigs(ver,
                                [k \in DOMAIN keys.val |-> Bytes(keys.mem, keys.val[k])],
                                msg, sigs) @@ [mem |-> keys.mem]

MultiCheck(m, ver, msg, sigs, pks, pkhs, pkaddr) ==
    LET h == MulHash([k \in DOMAIN pks |-> Bytes(m, pks[k])],
                     [k \in DOMAIN pkhs |-> Bytes(m, pkhs[k])])
    IN  IF h.err # "nil"
        THEN [fault |-> "none", val |-> FALSE, err |-> h.err, mem |-> m]
        ELSE IF h.addr # pkaddr
        THEN Ret(FALSE) @@ [mem |-> m]
        ELSE LET keys == MulPubKeys(m, pks)
             IN  IF keys.fault # "none" THEN keys
                 ELSE CheckSigs(ver,
                                [k \in DOMAIN keys.val |-> Bytes(keys.mem, keys.val[k])],
                                msg, sigs) @@ [mem |-> keys.mem]

-----------------------------------------------------------------------------
(* AwardTotal (common.go 149-174), on int64 limbs. *)

\* if rate >= 1000 { panic(...) }
RateRejected(r) == ~LimbLess(r, I64(1000))

\* base *= 1e8
ToSatoshi(b) == LimbMul(b, I64(100000000))

\* if base < MINTENDLINE { break }
BelowEndLine(b) == LimbLess(b, I64(MINTENDLINE))

\* ysum := base * SY6BLOCKS
YearSum(b) == LimbMul(b, I64(SY6BLOCKS))

\* sum += ysum
Accumulate(s, ysum) == LimbAdd(s, ysum)

\* base = base * rate / 1000
Decay(b, r) == LimbQuo(LimbMul(b, r), 1000)

-----------------------------------------------------------------------------
(* The inputs the calls are made with. *)

\* protocol versions: the defined one and an undefined one
Versions == {1, 2}

\* the script IDs that get signed
M1 == KeyID(100, 3, 0)
M2 == KeyID(100, 3, 1)
Msgs == {M1, M2}

\* valid signatures of two signers, a valid signature of another message,
\* and a signature with a flipped bit
Sigs == {Sign(1, M1), Sign(2, M1), Sign(1, M2), Flip(Sign(2, M1))}

Keys == {Pub(k) : k \in Seeds}

\* a public key of the wrong length
ShortKey == <<1, 2, 3>>

\* the caller's buffers: prefixed public keys (1-3; 2 and 3 claim the same
\* position), prefixed address hashes (4, 5) and an empty entry (6)
InitMem ==
    << <<0>> \o Pub(1), <<1>> \o Pub(2), <<1>> \o Pub(3),
       <<2>> \o Hash(Pub(3)), <<0>> \o Hash(Pub(1)), <<>> >>

KeyBufs == {1, 2, 3, 6}
HashBufs == {4, 5}

\* the committed addresses: the 2-of-3 roster (keys 1, 2 and the hash of
\* key 3) and the 2-of-2 roster (keys 1, 2)
Addr2of3 == MulHash(<<InitMem[1], InitMem[2]>>, <<InitMem[4]>>).addr
Addr2of2 == MulHash(<<InitMem[1], InitMem[2]>>, <<>>).addr
MultiAddrs == {Addr2of3, Addr2of2}

SingleAddrs == {Hash(Pub(1)), Hash(Pub(2))}

Triples == Heights \X TxIndexes \X ScriptIndexes

\* 92233720368: the largest base whose satoshi value fits int64
BaseFits == LimbAdd(LimbMul(I64(92233), I64(1000000)), I64(720368))
\* 184467440741: its satoshi value wraps past 2^64 to 390448384
BaseWraps == LimbAdd(LimbMul(I64(184467), I64(1000000)), I64(440741))

SmallBases == {I64(0), I64(2), I64(3), I64(4), I64(-1)}
LargeBases == {I64(40), I64(2000000), BaseFits, LimbAdd(BaseFits, I64(1)), BaseWraps}
AllRates == {I64(-1), I64(0), I64(1), I64(500), I64(900), I64(999), I64(1000), I64(1001)}

\* the slowest decay is run from the small bases only
\* base 2^26 with rate 1000 - 2^30: base * rate wraps to 1000 * base
StuckInput == <<I64(67108864), I64(-1073740824)>>

AwardInputs ==
    (SmallBases \X AllRates) \cup (LargeBases \X (AllRates \ {I64(999)}))
        \cup {StuckInput}

-----------------------------------------------------------------------------
(* State. *)

NoCall == [op |-> "none", args |-> <<>>, ret |-> NoRet]

Init ==
    /\ pc = "idle"
    /\ op = "none"
    /\ args = <<>>
    /\ ret = NoRet
    /\ prev = NoCall
    /\ mem = InitMem
    /\ base = I64(0)
    /\ rate = I64(0)
    /\ sum = I64(0)
    /\ y = 0
    /\ out = <<>>

awardVars == <<base, rate, sum, y, out>>

Outcome(r) == [fault |-> r.fault, val |-> r.val, err |-> r.err]

\* the call has returned (or faulted); the caller goes on
Return ==
    /\ pc \in {"returned", "done", "panic"}
    /\ pc' = "idle"
    /\ op' = "none"
    /\ args' = <<>>
    /\ ret' = NoRet
    /\ UNCHANGED <<prev, mem, awardVars>>

\* the caller keeps the call and its result for later comparison
Keep ==
    /\ pc = "returned"
    /\ pc' = "idle"
    /\ prev' = [op |-> op, args |-> args, ret |-> ret]
    /\ op' = "none"
    /\ args' = <<>>
    /\ ret' = NoRet
    /\ UNCHANGED <<mem, awardVars>>

CallKeyID ==
    /\ pc = "idle"
    /\ \E t \in Triples :
        /\ args' = [h |-> t[1], n |-> t[2], i |-> t[3]]
        /\ ret' = Ret(KeyID(t[1], t[2], t[3]))
    /\ op' = "KeyID"
    /\ pc' = "returned"
    /\ UNCHANGED <<prev, mem, awardVars>>

CallCheckSig ==
    /\ pc = "idle"
    /\ \E ver \in Versions, pubkey \in Keys \cup {ShortKey}, msg \in Msgs, sig \in Sigs :
        /\ args' = [ver |-> ver, pubkey |-> pubkey, msg |-> msg, sig |-> sig]
        /\ ret' = CheckSig(ver, pubkey, msg, sig)
    /\ op' = "CheckSig"
    /\ pc' = "returned"
    /\ UNCHANGED <<prev, mem, awardVars>>

CallCheckSigs ==
    /\ pc = "idle"
    /\ \E ver \in Versions, pubkeys \in SeqsUpTo(Keys, MaxPks), msg \in Msgs,
          sigs \in SeqsUpTo(Sigs, MaxSigs) :
        /\ args' = [ver |-> ver, pubkeys |-> pubkeys, msg |-> msg, sigs |-> sigs]
        /\ ret' = CheckSigs(ver, pubkeys, msg, sigs)
    /\ op' = "CheckSigs"
    /\ pc' = "returned"
    /\ UNCHANGED <<prev, mem, awardVars>>

CallSingleCheck ==
    /\ pc = "idle"
    /\ \E ver \in Versions, pubkey \in Keys, msg \in Msgs, sig \in Sigs,
          pkaddr \in SingleAddrs :
        /\ args' = [ver |-> ver, pubkey |-> pubkey, msg |-> msg, sig |-> sig,
                    pkaddr |-> pkaddr]
        /\ ret' = SingleCheck(ver, pubkey, msg, sig, pkaddr)
    /\ op' = "SingleCheck"
    /\ pc' = "returned"
    /\ UNCHANGED <<prev, mem, awardVars>>

CallMultiCheck ==
    /\ pc = "idle"
    /\ \E ver \in Versions, sigs \in SeqsUpTo(Sigs, MaxSigs),
          pks \in SeqsUpTo(KeyBufs, MaxPks), pkhs \in SeqsUpTo(HashBufs, MaxPkhs),
          pkaddr \in MultiAddrs :
        LET r == MultiCheck(mem, ver, M1, sigs,
                            [k \in DOMAIN pks |-> Whole(mem, pks[k])],
                            [k \in DOMAIN pkhs |-> Whole(mem, pkhs[k])], pkaddr)
        IN  /\ args' = [ver |-> ver, msg |-> M1, sigs |-> sigs, pks |-> pks,
                        pkhs |-> pkhs, pkaddr |-> pkaddr]
            /\ ret' = Outcome(r)
            /\ mem' = r.mem
    /\ op' = "MultiCheck"
    /\ pc' = "returned"
    /\ UNCHANGED <<prev, awardVars>>

CallMulPubKeys ==
    /\ pc = "idle"
    /\ \E pbks \in SeqsUpTo(KeyBufs \cup HashBufs, MaxPks) :
        LET r == MulPubKeys(mem, [k \in DOMAIN pbks |-> Whole(mem, pbks[k])])
        IN  /\ args' = [pbks |-> pbks]
            /\ ret' = Outcome(r)
            /\ mem' = r.mem
    /\ op' = "MulPubKeys"
    /\ pc' = "returned"
    /\ UNCHANGED <<prev, awardVars>>

\* AwardTotal up to the for statement
CallAwardTotal ==
    /\ pc = "idle"
    /\ \E in \in AwardInputs :
        /\ args' = [base |-> in[1], rate |-> in[2]]
        /\ rate' = in[2]
        /\ IF RateRejected(in[2])
           THEN /\ pc' = "panic"
                /\ ret' = Fault("rate")
                /\ UNCHANGED <<base, sum, y, out>>
           ELSE /\ pc' = "loop"
                /\ ret' = NoRet
                /\ base' = ToSatoshi(in[1])
                /\ sum' = I64(0)
                /\ y' = 0
                /\ out' = <<>>
    /\ op' = "AwardTotal"
    /\ UNCHANGED <<prev, mem>>

\* one pass of the for statement: break and return, or one more year
AwardLoop ==
    /\ pc = "loop"
    /\ y < MaxYears
    /\ IF BelowEndLine(base)
       THEN /\ pc' = "done"
            /\ ret' = Ret(sum)
            /\ UNCHANGED <<base, sum, y, out>>
       ELSE LET ysum == YearSum(base)
            IN  /\ sum' = Accumulate(sum, ysum)
                /\ y' = y + 1
                /\ out' = Append(out, [y |-> y + 1, sum |-> Accumulate(sum, ysum),
                                       ysum |-> ysum, base |-> base])
                /\ base' = Decay(base, rate)
                /\ UNCHANGED <<pc, ret>>
    /\ UNCHANGED <<op, args, rate, prev, mem>>

\* the signature checks and the authorization predicates
Next ==
    \/ CallCheckSig
    \/ CallCheckSigs
    \/ CallSingleCheck
    \/ CallMultiCheck
    \/ CallMulPubKeys
    \/ Return

Spec == Init /\ [][Next]_vars

\* script identifiers, two calls at a time
NextKeyID ==
    \/ CallKeyID
    \/ Keep

SpecKeyID == Init /\ [][NextKeyID]_vars

\* the emission total; the loop runs on once entered
NextAward ==
    \/ CallAwardTotal
    \/ AwardLoop
    \/ Return

SpecAward == Init /\ [][NextAward]_vars /\ WF_vars(AwardLoop)

-----------------------------------------------------------------------------
(* Properties of SingleCheck and MultiCheck. *)

IsCall(f) == op = f /\ pc = "returned"

\* the entries a list of buffer ids names
Entries(bufs) == [k \in DOMAIN bufs |-> mem[bufs[k]]]

\* what paddr.MulHash makes of the pending MultiCheck call's rosters
Derived == MulHash(Entries(args.pks), Entries(args.pkhs))

\* C1: whenever the address derived from the public key differs from the
\* claimed address, SingleCheck returns false, whatever the version, the
\* message and the signature, valid or not.
C1_AddressDominates ==
    (IsCall("SingleCheck") /\ Hash(args.pubkey) # args.pkaddr)
        => ret = Ret(FALSE)

\* a valid signature of version 1 presented for an address the key does not own
C1_Witness ==
    /\ IsCall("SingleCheck")
    /\ Hash(args.pubkey) # args.pkaddr
    /\ args.ver = 1
    /\ Verify(args.pubkey, args.msg, args.sig)
    /\ ret = Ret(FALSE)

\* C2: MultiCheck returns (false, nil) when the derivation succeeds and the
\* derived address differs from the claimed one; it returns (false, err)
\* with the derivation's own error when the derivation fails, whatever the
\* claimed address and the signatures; it returns an error in no other case.
C2_ErrorOnlyFromDerivation ==
    IsCall("MultiCheck") =>
        /\ Derived.err # "nil"
            => ret = [fault |-> "none", val |-> FALSE, err |-> Derived.err]
        /\ (Derived.err = "nil" /\ Derived.addr # args.pkaddr)
            => ret = Ret(FALSE)
        /\ ret.err # "nil" => Derived.err # "nil"

\* a roster with a repeated position, presented with signatures
C2_Witness ==
    /\ IsCall("MultiCheck")
    /\ Derived.err = "repeated position"
    /\ Len(args.sigs) = Len(args.pks)
    /\ ret.err = "repeated position"
    /\ ret.val = FALSE

\* C4: when the derivation succeeds, the derived address is the claimed
\* one and there are as many signatures as signing keys, MultiCheck returns
\* (CheckSigs(ver, the signing keys without their prefix, msg, sigs), nil):
\* true exactly when every signing key verifies its signature; the unsigned
\* entries take no part in the verification.
C4_MatchingAddressChecksSigners ==
    (/\ IsCall("MultiCheck")
     /\ Derived.err = "nil"
     /\ Derived.addr = args.pkaddr
     /\ Len(args.pks) = Len(args.sigs))
        => /\ ret = CheckSigs(args.ver, [k \in DOMAIN args.pks |-> Tail(mem[args.pks[k]])],
                              args.msg, args.sigs)
           /\ ret = Ret(\A k \in DOMAIN args.pks :
                            Verify(Tail(mem[args.pks[k]]), args.msg, args.sigs[k]))

\* the 2-of-3 roster: two valid signatures, and one valid with one invalid
C4_Witness ==
    /\ IsCall("MultiCheck")
    /\ args.pkaddr = Addr2of3
    /\ args.pks = <<1, 2>>
    /\ args.pkhs = <<4>>
    /\ args.sigs = <<Sign(1, M1), Sign(2, M1)>>
    /\ ret = Ret(TRUE)

-----------------------------------------------------------------------------
(* Properties of CheckSig and CheckSigs. *)

\* the pairs (pubkeys[k], sigs[k]) up to position n all verify
PairsVerify(n) ==
    \A k \in 1..n : Verify(args.pubkeys[k], args.msg, args.sigs[k])

\* C3: for lists of public keys and signatures of one length, CheckSigs
\* returns true if and only if every positional pair verifies, and false
\* when any pair fails, the last one included.
C3_AllPairs ==
    (IsCall("CheckSigs") /\ Len(args.pubkeys) = Len(args.sigs))
        => ret = Ret(PairsVerify(Len(args.pubkeys)))

\* only the last pair of two is wrong
C3_Witness ==
    /\ IsCall("CheckSigs")
    /\ Len(args.pubkeys) = Len(args.sigs)
    /\ Len(args.pubkeys) >= 2
    /\ PairsVerify(Len(args.pubkeys) - 1)
    /\ ~PairsVerify(Len(args.pubkeys))
    /\ ret = Ret(FALSE)

\* C7, as claimed: every call of CheckSigs with lists of different lengths
\* faults with an index out of range and yields no boolean.
C7_MismatchAlwaysFaults ==
    (IsCall("CheckSigs") /\ Len(args.pubkeys) # Len(args.sigs))
        => ret.fault = "index out of range"

\* C7, amended: with more public keys than signatures CheckSigs faults
\* with an index out of range exactly when every signature verifies
\* against the key at its position, and returns false otherwise; with
\* fewer public keys than signatures it never faults and returns whether
\* every public key verifies the signature at its position.
C7_MismatchFaultsPastValidPrefix ==
    (IsCall("CheckSigs") /\ Len(args.pubkeys) # Len(args.sigs))
        => IF Len(args.pubkeys) > Len(args.sigs)
           THEN IF PairsVerify(Len(args.sigs))
                THEN ret = Fault("index out of range")
                ELSE ret = Ret(FALSE)
           ELSE ret = Ret(PairsVerify(Len(args.pubkeys)))

\* a surplus signature is ignored: one valid pair, two signatures, true
C7_Witness ==
    /\ IsCall("CheckSigs")
    /\ Len(args.pubkeys) = 1
    /\ Len(args.sigs) = 2
    /\ ret = Ret(TRUE)

\* C8: a call of CheckSig, CheckSigs, SingleCheck or MultiCheck with a
\* version other than 1 never yields true.
C8_OnlyVersionOne ==
    (/\ pc = "returned"
     /\ op \in {"CheckSig", "CheckSigs", "SingleCheck", "MultiCheck"}
     /\ args.ver # 1)
        => ~(ret.fault = "none" /\ ret.val = TRUE)

-----------------------------------------------------------------------------
(* Properties of MulPubKeys. *)

\* C9: for a list of non-empty prefixed entries MulPubKeys returns a list
\* of the same length whose i-th element is the i-th entry without its
\* first byte, and no call writes a byte of the caller's buffers.
C9_StripsWithoutWriting ==
    /\ mem = InitMem
    /\ (IsCall("MulPubKeys") /\ \A k \in DOMAIN args.pbks : InitMem[args.pbks[k]] # <<>>)
        => /\ ret.fault = "none"
           /\ Len(ret.val) = Len(args.pbks)
           /\ \A k \in DOMAIN args.pbks :
                Bytes(mem, ret.val[k]) = Tail(InitMem[args.pbks[k]])

\* two entries stripped, a key and an address hash, in the order given
C9_Witness ==
    /\ IsCall("MulPubKeys")
    /\ args.pbks = <<2, 4>>
    /\ ret.fault = "none"
    /\ Bytes(mem, ret.val[1]) = Pub(2)
    /\ Bytes(mem, ret.val[2]) = Hash(Pub(3))

-----------------------------------------------------------------------------
(* Properties of KeyID. *)

\* (h1, n1, i1) before (h2, n2, i2): by height, then transaction index,
\* then script index
TripleLess(a, b) ==
    \/ a.h < b.h
    \/ a.h = b.h /\ a.n < b.n
    \/ a.h = b.h /\ a.n = b.n /\ a.i < b.i

\* C5: KeyID returns exactly 10 bytes, big-endian h (4), n (4), i (2); the
\* same triple gives the same bytes and different triples different bytes.
C5_TenBytesInjective ==
    IsCall("KeyID") =>
        LET id == ret.val
        IN  /\ Len(id) = 10
            /\ \A k \in 1..Len(id) : id[k] \in 0..255
            /\ id[1] * 256 + id[2] = args.h \div 65536
            /\ id[3] * 256 + id[4] = args.h % 65536
            /\ id[5] * 256 + id[6] = args.n \div 65536
            /\ id[7] * 256 + id[8] = args.n % 65536
            /\ id[9] * 256 + id[10] = args.i
            /\ prev.op = "KeyID" => ((prev.args = args) <=> (prev.ret.val = id))

\* two triples that differ in the script index only, and the same triple twice
C5_Witness ==
    /\ IsCall("KeyID")
    /\ prev.op = "KeyID"
    /\ prev.args.h = args.h /\ prev.args.n = args.n /\ prev.args.i # args.i
    /\ prev.args.i % 256 = args.i % 256
    /\ prev.ret.val # ret.val

\* C6: KeyID(a) is byte-wise smaller than KeyID(b) if and only if a is
\* before b by height, then transaction index, then script index.
C6_OrderPreserving ==
    (IsCall("KeyID") /\ prev.op = "KeyID")
        => (BytesLess(prev.ret.val, ret.val) <=> TripleLess(prev.args, args))

\* the height decides against the two later fields and against its low byte
C6_Witness ==
    /\ IsCall("KeyID")
    /\ prev.op = "KeyID"
    /\ prev.args.h = 1 /\ args.h = 256
    /\ prev.args.n > args.n
    /\ prev.args.i > args.i
    /\ BytesLess(prev.ret.val, ret.val)

-----------------------------------------------------------------------------
(* Properties of AwardTotal. *)

WideWidth == Int64Width + 4

\* a non-negative int64 in the wider integers, where no total overflows
Widen(a) == [k \in 1..WideWidth |-> IF k <= Len(a) THEN a[k] ELSE 0]

RECURSIVE ExactTotal(_, _, _)
\* acc plus the exact amount * SY6BLOCKS of the printed rows from row k on
ExactTotal(rows, k, acc) ==
    IF k > Len(rows) THEN acc
    ELSE CHOOSE t \in {ExactTotal(rows, k + 1, v) :
                        v \in {LimbAdd(acc, LimbMul(Widen(rows[k].base),
                                                    ToLimbs(SY6BLOCKS, WideWidth)))}} : TRUE

\* the returned total is the sum, over the years whose amount was at least
\* MINTENDLINE, of the amount times SY6BLOCKS; a rate of 1000 or more panics
C10_Total ==
    /\ (pc = "done" /\ op = "AwardTotal")
        => /\ BelowEndLine(base)
           /\ \A k \in DOMAIN out : ~BelowEndLine(out[k].base)
           /\ ~IsNeg(ret.val)
           /\ Widen(ret.val) = ExactTotal(out, 1, ToLimbs(0, WideWidth))
    /\ (op = "AwardTotal" /\ ~LimbLess(args.rate, I64(1000))) => pc = "panic"
    /\ (op = "AwardTotal" /\ LimbLess(args.rate, I64(1000))) => pc # "panic"

\* each pass that goes on strictly reduces the per-block amount
C10_Reduced == (pc = "loop" /\ pc' = "loop" /\ y' = y + 1) => LimbLess(base', base)

\* C10: AwardTotal panics for rate >= 1000 and terminates for every
\* rate < 1000: each pass strictly reduces the per-block amount until it
\* is below MINTENDLINE, and the value returned is the sum over the years
\* counted of the amount times SY6BLOCKS.
C10_TerminatesWithTotal ==
    /\ []C10_Total
    /\ [][C10_Reduced]_vars
    /\ (pc = "loop") ~> (pc = "done")

=============================================================================
